---- MODULE Spec2Model ----
(***************************************************************************)
(* FlareChef API (src/main.py): the POST /api/generate route and the pure  *)
(* helpers it calls.  Text is modelled as a sequence of one-character      *)
(* strings so that split, strip, lower, title and the substring test are   *)
(* computed, not assumed.                                                  *)
(***************************************************************************)
EXTENDS Integers, Sequences, FiniteSets, TLC

VARIABLES
    calorie_hints,  \* the module-level dict CALORIE_HINTS, in declaration order
    request,        \* <<>> or <<payload>>: the GenerateRequest in flight
    response,       \* <<>> or <<r>>: the reply to the request in flight
    memo,           \* <<>> or <<[raw, reply]>>: one earlier call a caller kept
    ings,           \* argument list handed to a helper called on its own
    out             \* <<>> or <<[fn, arg, val]>>: the last helper result

vars == <<calorie_hints, request, response, memo, ings, out>>

----------------------------------------------------------------------------
(* Bounds of the model *)

MaxSegs == 4        \* comma-separated segments in a posted payload
MaxReplaySegs == 2  \* segments in a payload of the replay specification
MaxIngs == 3        \* length of a mixed argument list of a helper
MaxCount == 20      \* length of a uniform argument list of a helper

----------------------------------------------------------------------------
(* Characters and Python's str methods *)

LowerLetters ==
    <<"a","b","c","d","e","f","g","h","i","j","k","l","m",
      "n","o","p","q","r","s","t","u","v","w","x","y","z">>

UpperLetters ==
    <<"A","B","C","D","E","F","G","H","I","J","K","L","M",
      "N","O","P","Q","R","S","T","U","V","W","X","Y","Z">>

Whitespace == {" ", "\t"}

Range(s) == {s[i] : i \in DOMAIN s}

LowerSet == Range(LowerLetters)

UpperSet == Range(UpperLetters)

IsLower(c) == c \in LowerSet

IsUpper(c) == c \in UpperSet

IsCased(c) == IsLower(c) \/ IsUpper(c)

IndexIn(c, letters) == CHOOSE i \in DOMAIN letters : letters[i] = c

LowerChar(c) == IF IsUpper(c) THEN LowerLetters[IndexIn(c, UpperLetters)] ELSE c

UpperChar(c) == IF IsLower(c) THEN UpperLetters[IndexIn(c, LowerLetters)] ELSE c

\* str.lower()
Lower(s) == [i \in DOMAIN s |-> LowerChar(s[i])]

\* str.title(): a cased character is upper-cased when the character before
\* it is not cased, lower-cased otherwise
Title(s) ==
    [i \in DOMAIN s |->
        IF i > 1 /\ IsCased(s[i - 1]) THEN LowerChar(s[i]) ELSE UpperChar(s[i])]

RECURSIVE LStrip(_)
LStrip(s) ==
    IF s # <<>> /\ Head(s) \in Whitespace THEN LStrip(Tail(s)) ELSE s

RECURSIVE RStrip(_)
RStrip(s) ==
    IF s # <<>> /\ s[Len(s)] \in Whitespace
    THEN RStrip(SubSeq(s, 1, Len(s) - 1))
    ELSE s

\* str.strip()
Strip(s) == RStrip(LStrip(s))

\* str.split(sep) for a one-character separator
RECURSIVE SplitFrom(_, _, _, _)
SplitFrom(s, sep, i, cur) ==
    IF i > Len(s) THEN <<cur>>
    ELSE IF s[i] = sep THEN <<cur>> \o SplitFrom(s, sep, i + 1, <<>>)
    ELSE SplitFrom(s, sep, i + 1, Append(cur, s[i]))

Split(s, sep) == SplitFrom(s, sep, 1, <<>>)

\* sep.join(parts)
RECURSIVE Join(_, _)
Join(sep, parts) ==
    IF parts = <<>> THEN <<>>
    ELSE IF Len(parts) = 1 THEN parts[1]
    ELSE parts[1] \o sep \o Join(sep, Tail(parts))

\* key in k: the scan of str.__contains__ over the start offsets
RECURSIVE ContainsFrom(_, _, _)
ContainsFrom(key, k, off) ==
    IF off + Len(key) > Len(k) THEN FALSE
    ELSE IF SubSeq(k, off + 1, off + Len(key)) = key THEN TRUE
    ELSE ContainsFrom(key, k, off + 1)

Contains(key, k) == ContainsFrom(key, k, 0)

\* [i.strip() for i in xs if i.strip()]
StripNonEmpty(xs) ==
    LET stripped == [i \in DOMAIN xs |-> Strip(xs[i])]
    IN  SelectSeq(stripped, LAMBDA x : x # <<>>)

\* xs[:n]
Take(xs, n) == SubSeq(xs, 1, IF Len(xs) < n THEN Len(xs) ELSE n)

----------------------------------------------------------------------------
(* Module-level constants of src/main.py. Nutrition values are held in     *)
(* tenths (165 kcal = 1650, 3.6 g = 36).                                   *)

CALORIE_HINTS ==
    <<
      <<<<"c","h","i","c","k","e","n">>, <<1650, 310, 0, 36>>>>,
      <<<<"b","e","e","f">>, <<2500, 260, 0, 150>>>>,
      <<<<"p","o","r","k">>, <<2420, 270, 0, 140>>>>,
      <<<<"s","a","l","m","o","n">>, <<2080, 200, 0, 130>>>>,
      <<<<"e","g","g">>, <<780, 60, 6, 50>>>>,
      <<<<"r","i","c","e">>, <<2060, 43, 450, 4>>>>,
      <<<<"p","a","s","t","a">>, <<2210, 80, 430, 13>>>>,
      <<<<"p","o","t","a","t","o">>, <<1610, 43, 370, 2>>>>,
      <<<<"b","e","a","n","s">>, <<1550, 100, 280, 5>>>>,
      <<<<"t","o","f","u">>, <<1440, 170, 30, 90>>>>,
      <<<<"c","h","e","e","s","e">>, <<1130, 70, 4, 93>>>>,
      <<<<"m","i","l","k">>, <<1030, 80, 120, 24>>>>,
      <<<<"o","l","i","v","e"," ","o","i","l">>, <<1190, 0, 0, 135>>>>,
      <<<<"b","u","t","t","e","r">>, <<1020, 1, 0, 115>>>>,
      <<<<"b","r","e","a","d">>, <<790, 30, 150, 10>>>>,
      <<<<"a","v","o","c","a","d","o">>, <<1600, 20, 90, 150>>>>
    >>

FALLBACK_IMAGE ==
    <<"h","t","t","p","s",":","/","/","i","m","a","g","e","s",".","u","n","s","p","l","a","s","h",".","c","o","m","/","p","h","o","t","o","-","1","5","0","4","6","7","4","9","0","0","2","4","7","-","0","8","7","7","d","f","9","c","c","8","3","6","?","q","=","8","0","&","w","=","1","6","0","0","&","a","u","t","o","=","f","o","r","m","a","t","&","f","i","t","=","c","r","o","p">>

TITLE_EMPTY ==
    <<"F","l","a","r","e","C","h","e","f"," ","C","r","e","a","t","i","o","n">>

TITLE_ONE_PREFIX ==
    <<"I","g","n","i","t","e","d"," ">>

TITLE_ONE_SUFFIX ==
    <<" ","D","e","l","i","g","h","t">>

TITLE_MANY_PREFIX ==
    <<"F","l","a","m","e","-","K","i","s","s","e","d"," ">>

TITLE_SEP ==
    <<" ","&"," ">>

TITLE_MEDLEY ==
    <<" ","M","e","d","l","e","y">>

DESC_PREFIX ==
    <<"A"," ","w","a","r","m",","," ","g","l","o","w","i","n","g"," ","r","e","c","i","p","e"," ","t","h","a","t"," ","t","u","r","n","s"," ">>

DESC_SEP ==
    <<","," ">>

DESC_SUFFIX ==
    <<" ","i","n","t","o"," ","a"," ","c","o","z","y",","," ","r","e","s","t","a","u","r","a","n","t","-","w","o","r","t","h","y"," ","d","i","s","h",".">>

STEP_1 ==
    <<"P","r","e","h","e","a","t"," ","a"," ","s","k","i","l","l","e","t"," ","u","n","t","i","l"," ","i","t"," ","s","o","f","t","l","y"," ","s","h","i","m","m","e","r","s"," ","l","i","k","e"," ","a"," ","f","l","a","m","e",".">>

STEP_2_PREFIX ==
    <<"A","d","d"," ">>

STEP_2_SUFFIX ==
    <<" ","w","i","t","h"," ","a"," ","d","r","i","z","z","l","e"," ","o","f"," ","o","i","l",";"," ","s","e","a","r"," ","u","n","t","i","l"," ","l","i","g","h","t","l","y"," ","c","a","r","a","m","e","l","i","z","e","d",".">>

STEP_3 ==
    <<"F","o","l","d"," ","i","n"," ","r","e","m","a","i","n","i","n","g"," ","i","n","g","r","e","d","i","e","n","t","s"," ","a","n","d"," ","s","e","a","s","o","n"," ","w","i","t","h"," ","s","a","l","t",","," ","p","e","p","p","e","r",","," ","a","n","d"," ","a"," ","h","i","n","t"," ","o","f"," ","h","e","a","t",".">>

STEP_4 ==
    <<"S","i","m","m","e","r"," ","u","n","t","i","l"," ","f","l","a","v","o","r","s"," ","m","e","l","d"," ","a","n","d"," ","t","e","x","t","u","r","e","s"," ","a","r","e"," ","t","e","n","d","e","r",".">>

STEP_5 ==
    <<"F","i","n","i","s","h"," ","w","i","t","h"," ","f","r","e","s","h"," ","h","e","r","b","s"," ","o","r"," ","c","i","t","r","u","s"," ","a","n","d"," ","s","e","r","v","e"," ","w","a","r","m",".">>

LEAD_DEFAULT ==
    <<"i","n","g","r","e","d","i","e","n","t","s">>

QUERY_DEFAULT ==
    <<"f","o","o","d">>

IMAGE_PREFIX ==
    <<"h","t","t","p","s",":","/","/","s","o","u","r","c","e",".","u","n","s","p","l","a","s","h",".","c","o","m","/","f","e","a","t","u","r","e","d","/","?">>

DETAIL_EMPTY ==
    <<"P","l","e","a","s","e"," ","p","r","o","v","i","d","e"," ","a","t"," ","l","e","a","s","t"," ","o","n","e"," ","i","n","g","r","e","d","i","e","n","t",".">>

MIN_LENGTH == 2

FALLBACK_CONTRIBUTION == <<400, 0, 50, 0>>

----------------------------------------------------------------------------
(* estimate_nutrition. The four totals are Python floats. A total is held  *)
(* here in units of 1/Fine of a tenth; the sum of the calorie values is a  *)
(* sum of integers and is exact, while each of the other three sums may be *)
(* off by a rounding error drawn from FloatErr, so that the function       *)
(* yields the set of the results the float arithmetic can produce.         *)

Fine == 100

FloatErr == {-1, 0, 1}

\* variant: the scan without its break, so that the last matching key wins
RECURSIVE FindKey_NoBreak(_, _, _)
FindKey_NoBreak(k, hints, i) ==
    IF i > Len(hints) THEN 0
    ELSE LET later == FindKey_NoBreak(k, hints, i + 1)
         IN  IF later # 0 THEN later
             ELSE IF Contains(hints[i][1], k) THEN i
             ELSE 0

\* for key in CALORIE_HINTS: if key in k: found = key; break
RECURSIVE FindKey(_, _, _)
FindKey(k, hints, i) ==
    IF i > Len(hints) THEN 0
    ELSE IF Contains(hints[i][1], k) THEN i
    ELSE FindKey(k, hints, i + 1)

\* what one pass of the loop body adds to the four totals, in tenths
Contribution(raw) ==
    LET k == Lower(Strip(raw))
        found == FindKey(k, calorie_hints, 1)
    IN  IF found # 0 /\ calorie_hints[found][1] # <<>>
        THEN calorie_hints[found][2]
        ELSE FALLBACK_CONTRIBUTION

\* variant: total_cals = c in place of total_cals += c
RECURSIVE Accumulate_AssignsCalories(_, _, _)
Accumulate_AssignsCalories(xs, i, totals) ==
    IF i > Len(xs) THEN totals
    ELSE LET c == Contribution(xs[i])
         IN  Accumulate_AssignsCalories(xs, i + 1,
                 [j \in 1..4 |-> IF j = 1 THEN c[j] * Fine
                                 ELSE totals[j] + c[j] * Fine])

RECURSIVE Accumulate(_, _, _)
Accumulate(xs, i, totals) ==
    IF i > Len(xs) THEN totals
    ELSE LET c == Contribution(xs[i])
         IN  Accumulate(xs, i + 1,
                 [j \in 1..4 |-> totals[j] + c[j] * Fine])

\* int(x) of a non-negative float
IntOf(x) == x \div (10 * Fine)

\* round(x, 1), in tenths
Round1(x) == (x + Fine \div 2) \div Fine

NutritionModel(total_cals, total_pro, total_carb, total_fat) ==
    [calories |-> IntOf(total_cals),
     protein  |-> Round1(total_pro),
     carbs    |-> Round1(total_carb),
     fat      |-> Round1(total_fat)]

estimate_nutrition(xs) ==
    LET totals == Accumulate(xs, 1, <<0, 0, 0, 0>>)
    IN  { NutritionModel(totals[1], totals[2] + err[1],
                         totals[3] + err[2], totals[4] + err[3]) :
            err \in FloatErr \X FloatErr \X FloatErr }

----------------------------------------------------------------------------
(* The text helpers and compute_time *)

\* variant: the join over core in place of core[:2]
craft_title_JoinsAll(xs) ==
    LET nonempty == SelectSeq(xs, LAMBDA x : Strip(x) # <<>>)
        core == [i \in DOMAIN nonempty |-> Title(Strip(nonempty[i]))]
    IN  IF core = <<>> THEN TITLE_EMPTY
        ELSE IF Len(core) = 1
             THEN TITLE_ONE_PREFIX \o core[1] \o TITLE_ONE_SUFFIX
        ELSE TITLE_MANY_PREFIX \o Join(TITLE_SEP, core)
                 \o (IF Len(core) > 2 THEN TITLE_MEDLEY ELSE <<>>)

craft_title(xs) ==
    LET nonempty == SelectSeq(xs, LAMBDA x : Strip(x) # <<>>)
        core == [i \in DOMAIN nonempty |-> Title(Strip(nonempty[i]))]
    IN  IF core = <<>> THEN TITLE_EMPTY
        ELSE IF Len(core) = 1
             THEN TITLE_ONE_PREFIX \o core[1] \o TITLE_ONE_SUFFIX
        ELSE TITLE_MANY_PREFIX \o Join(TITLE_SEP, Take(core, 2))
                 \o (IF Len(core) > 2 THEN TITLE_MEDLEY ELSE <<>>)

craft_description(xs) ==
    DESC_PREFIX \o Join(DESC_SEP, StripNonEmpty(xs)) \o DESC_SUFFIX

\* variant: the lead taken as given, without strip and lower
craft_steps_LeadAsGiven(xs) ==
    LET lead == IF xs # <<>> THEN xs[1] ELSE LEAD_DEFAULT
    IN  <<STEP_1, STEP_2_PREFIX \o lead \o STEP_2_SUFFIX, STEP_3, STEP_4, STEP_5>>

craft_steps(xs) ==
    LET lead == IF xs # <<>> THEN Lower(Strip(xs[1])) ELSE LEAD_DEFAULT
    IN  <<STEP_1, STEP_2_PREFIX \o lead \o STEP_2_SUFFIX, STEP_3, STEP_4, STEP_5>>

Min(a, b) == IF a < b THEN a ELSE b

Max(a, b) == IF a > b THEN a ELSE b

\* variant: the upper limit left out
compute_time_NoCeiling(xs) ==
    LET base == 10 + 5 * Len(xs)
    IN  Max(base, 15)

compute_time(xs) ==
    LET base == 10 + 5 * Len(xs)
    IN  Min(Max(base, 15), 75)

----------------------------------------------------------------------------
(* POST /api/generate: the GenerateRequest model and the handler *)

NoBody == <<>>

Reply(status, body, detail) == [status |-> status, body |-> body, detail |-> detail]

\* variant: the field without its min_length
ValidPayload_AnyLength(payload) == Len(payload.ingredients) >= 0

\* ingredients: str = Field(..., min_length=2)
ValidPayload(payload) == Len(payload.ingredients) >= MIN_LENGTH

\* variant: the comprehension without its "if i.strip()"
ParseIngredients_KeepsBlank(raw) ==
    LET parts == Split(raw, ",")
    IN  [i \in DOMAIN parts |-> Strip(parts[i])]

\* variant: the segments lowercased as they are parsed
ParseIngredients_Lowercased(raw) ==
    LET kept == StripNonEmpty(Split(raw, ","))
    IN  [i \in DOMAIN kept |-> Lower(kept[i])]

ParseIngredients(raw) == StripNonEmpty(Split(raw, ","))

\* variant: the join over ingredients in place of ingredients[:3]
ImageUrl_AllIngredients(ingredients) ==
    LET joined == Join(<<"+">>, ingredients)
        query == IF joined # <<>> THEN joined ELSE QUERY_DEFAULT
        image_url == IMAGE_PREFIX \o query
    IN  IF image_url # <<>> THEN image_url ELSE FALLBACK_IMAGE

ImageUrl(ingredients) ==
    LET joined == Join(<<"+">>, Take(ingredients, 3))
        query == IF joined # <<>> THEN joined ELSE QUERY_DEFAULT
        image_url == IMAGE_PREFIX \o query
    IN  IF image_url # <<>> THEN image_url ELSE FALLBACK_IMAGE

RecipeModel(title, description, ingredients, steps, time_minutes, nutrition, image_url) ==
    [title        |-> title,
     description  |-> description,
     ingredients  |-> ingredients,
     steps        |-> steps,
     time_minutes |-> time_minutes,
     nutrition    |-> nutrition,
     image_url    |-> image_url]

\* the handler: the set of the replies it can give to the payload
generate_recipe(payload) ==
    LET ingredients == ParseIngredients(payload.ingredients)
        title == craft_title(ingredients)
        description == craft_description(ingredients)
        steps == craft_steps(ingredients)
        time_minutes == compute_time(ingredients)
        image_url == ImageUrl(ingredients)
    IN  IF ingredients = <<>>
        THEN { Reply(400, NoBody, DETAIL_EMPTY) }
        ELSE { Reply(200,
                     <<RecipeModel(title, description, ingredients, steps,
                                   time_minutes, nutrition, image_url)>>,
                     <<>>) :
                 nutrition \in estimate_nutrition(ingredients) }

\* the route: request validation, then the handler
PostGenerate(payload) ==
    IF ValidPayload(payload)
    THEN generate_recipe(payload)
    ELSE { Reply(422, NoBody, <<>>) }

----------------------------------------------------------------------------
(* Inputs *)

Segments ==
    { <<>>, <<" ">>, <<"a">>, <<" ","K","a","l","e">>, <<"e","g","g","\t">>,
      <<"b"," ","c">> }

RawInputs(n) ==
    { Join(<<",">>, segs) : segs \in UNION { [1..k -> Segments] : k \in 1..n } }

Ingredients ==
    { <<"c","h","i","c","k","e","n"," ","r","i","c","e"," ","b","o","w","l">>,
      <<"e","g","g"," ","r","i","c","e">>,
      <<" ","K","a","l","e"," ">>,
      <<" ">>,
      <<"B","E","E","F">>,
      <<"b","u","t","t","e","r">>,
      <<"o","l","i","v","e"," ","o","i","l">> }

ArgLists ==
    UNION { [1..k -> Ingredients] : k \in 0..MaxIngs }
    \cup { [i \in 1..n |-> x] : n \in 0..MaxCount, x \in Ingredients }

----------------------------------------------------------------------------
(* The service: a caller posts a payload, the route answers it, the caller *)
(* takes the answer.                                                       *)

Idle ==
    /\ request = <<>>
    /\ response = <<>>

Init ==
    /\ calorie_hints = CALORIE_HINTS
    /\ Idle
    /\ memo = <<>>
    /\ ings = <<>>
    /\ out = <<>>

Post(inputs) ==
    /\ Idle
    /\ \E raw \in inputs : request' = <<[ingredients |-> raw]>>
    /\ UNCHANGED <<calorie_hints, response, memo, ings, out>>

\* variant: CALORIE_HINTS.pop(found) in place of CALORIE_HINTS[found], so
\* that a key is gone from the lexicon once an ingredient has matched it
Generate_PopsHints ==
    /\ request # <<>>
    /\ response = <<>>
    /\ \E reply \in PostGenerate(request[1]) : response' = <<reply>>
    /\ LET ingredients == ParseIngredients(request[1].ingredients)
           found == { FindKey(Lower(ingredients[i]), calorie_hints, 1) :
                        i \in DOMAIN ingredients }
       IN  calorie_hints' =
               IF ValidPayload(request[1])
               THEN SelectSeq(calorie_hints,
                        LAMBDA h : \A i \in found :
                            i = 0 \/ calorie_hints[i][1] # h[1])
               ELSE calorie_hints
    /\ UNCHANGED <<request, memo, ings, out>>

Generate ==
    /\ request # <<>>
    /\ response = <<>>
    /\ \E reply \in PostGenerate(request[1]) : response' = <<reply>>
    /\ UNCHANGED <<calorie_hints, request, memo, ings, out>>

\* the caller takes the reply; a caller that kept an earlier call notes that
\* a call with another payload has been answered since
Return ==
    /\ request # <<>>
    /\ response # <<>>
    /\ request' = <<>>
    /\ response' = <<>>
    /\ memo' = IF memo # <<>> /\ memo[1].raw # request[1].ingredients
               THEN <<[memo[1] EXCEPT !.later = TRUE]>>
               ELSE memo
    /\ UNCHANGED <<calorie_hints, ings, out>>

\* the caller takes the reply and keeps it with the payload it answered
ReturnAndKeep ==
    /\ request # <<>>
    /\ response # <<>>
    /\ memo' = <<[raw |-> request[1].ingredients, reply |-> response[1],
                  later |-> FALSE]>>
    /\ request' = <<>>
    /\ response' = <<>>
    /\ UNCHANGED <<calorie_hints, ings, out>>

PostAny == Post(RawInputs(MaxSegs))

Next == PostAny \/ Generate \/ Return

Spec == Init /\ [][Next]_vars

PostReplay == Post(RawInputs(MaxReplaySegs))

NextReplay == PostReplay \/ Generate \/ Return \/ ReturnAndKeep

SpecReplay == Init /\ [][NextReplay]_vars

----------------------------------------------------------------------------
(* The helpers called on their own, on argument lists the route never     *)
(* builds as well (an empty list, untrimmed and blank entries).            *)

InitPure ==
    /\ calorie_hints = CALORIE_HINTS
    /\ Idle
    /\ memo = <<>>
    /\ ings \in ArgLists
    /\ out = <<>>

Result(fn, val) == <<[fn |-> fn, val |-> val, moved |-> FALSE]>>

CallEstimateNutrition ==
    /\ \E facts \in estimate_nutrition(ings) : out' = Result("estimate_nutrition", facts)
    /\ UNCHANGED <<calorie_hints, request, response, memo, ings>>

CallCraftTitle ==
    /\ out' = Result("craft_title", craft_title(ings))
    /\ UNCHANGED <<calorie_hints, request, response, memo, ings>>

CallCraftDescription ==
    /\ out' = Result("craft_description", craft_description(ings))
    /\ UNCHANGED <<calorie_hints, request, response, memo, ings>>

CallCraftSteps ==
    /\ out' = Result("craft_steps", craft_steps(ings))
    /\ UNCHANGED <<calorie_hints, request, response, memo, ings>>

CallComputeTime ==
    /\ out' = Result("compute_time", compute_time(ings))
    /\ UNCHANGED <<calorie_hints, request, response, memo, ings>>

\* the caller reorders its list: two neighbours change places. Nutrition
\* facts it holds are kept, to be set against the reordered list; a text or
\* a time computed from the old order is dropped.
Shuffle ==
    /\ \E i \in 1..(Len(ings) - 1) :
          /\ ings[i] # ings[i + 1]
          /\ ings' = [ings EXCEPT ![i] = ings[i + 1], ![i + 1] = ings[i]]
    /\ out' = IF out # <<>> /\ out[1].fn = "estimate_nutrition"
              THEN <<[out[1] EXCEPT !.moved = TRUE]>>
              ELSE <<>>
    /\ UNCHANGED <<calorie_hints, request, response, memo>>

NextPure ==
    \/ CallEstimateNutrition
    \/ CallCraftTitle
    \/ CallCraftDescription
    \/ CallCraftSteps
    \/ CallComputeTime
    \/ Shuffle

SpecPure == InitPure /\ [][NextPure]_vars

----------------------------------------------------------------------------
(* Properties of the route, stated on the payload and the reply at hand    *)

Answered == request # <<>> /\ response # <<>>

Raw == request[1].ingredients

TheReply == response[1]

Rejected(reply) == reply.status \in {400, 422} /\ reply.body = NoBody

Succeeded(reply) == reply.status = 200 /\ Len(reply.body) = 1

\* raw holds nothing but commas and whitespace
OnlyCommasAndBlanks(raw) ==
    \A i \in DOMAIN raw : raw[i] = "," \/ raw[i] \in Whitespace

\* the pairs <<a, b>> such that raw[a..b] is a comma-separated segment of raw
\* without the whitespace around it
TrimmedSpans(raw) ==
    LET Solid(i) == raw[i] # "," /\ raw[i] \notin Whitespace
        BlankBefore(a) ==
            \E c \in 0..(a - 1) :
                /\ c = 0 \/ raw[c] = ","
                /\ \A j \in (c + 1)..(a - 1) : raw[j] \in Whitespace
        BlankAfter(b) ==
            \E c \in (b + 1)..(Len(raw) + 1) :
                /\ c = Len(raw) + 1 \/ raw[c] = ","
                /\ \A j \in (b + 1)..(c - 1) : raw[j] \in Whitespace
    IN  { sp \in (DOMAIN raw) \X (DOMAIN raw) :
            /\ sp[1] <= sp[2]
            /\ Solid(sp[1]) /\ Solid(sp[2])
            /\ \A j \in sp[1]..sp[2] : raw[j] # ","
            /\ BlankBefore(sp[1]) /\ BlankAfter(sp[2]) }

\* C1: a payload of nothing but commas and whitespace (the empty string
\* included) is always answered by a rejection that carries no Recipe.
C1_BlankInputRejected ==
    (Answered /\ OnlyCommasAndBlanks(Raw)) => Rejected(TheReply)

C1_Witness ==
    /\ Answered
    /\ Raw = <<" ", ",", " ", ",">>
    /\ TheReply.status = 400
    /\ TheReply.detail = DETAIL_EMPTY

\* C2 as stated: every payload that holds at least one ingredient is
\* answered by a Recipe, a one-character payload such as "a" included.
C2_RejectedOnlyWhenEmpty ==
    (Answered /\ ~OnlyCommasAndBlanks(Raw)) => Succeeded(TheReply)

\* C2 as amended: a payload is answered by a Recipe exactly when it is at
\* least MIN_LENGTH characters long and holds at least one ingredient.
C2_RejectedWhenShortOrEmpty ==
    Answered =>
        /\ Succeeded(TheReply) <=> (Len(Raw) >= 2 /\ ~OnlyCommasAndBlanks(Raw))
        /\ ~Succeeded(TheReply) => Rejected(TheReply)

C2_Witness ==
    /\ Answered
    /\ Raw = <<"a", ",">>
    /\ Succeeded(TheReply)
    /\ TheReply.body[1].ingredients = << <<"a">> >>

\* C6: the ingredients of a returned Recipe are the comma-separated segments
\* of the payload without the whitespace around them, the blank segments
\* left out, in the order and the letter case of the payload.
C6_IngredientsAreTrimmedSegments ==
    (Answered /\ Succeeded(TheReply)) =>
        LET ingredients == TheReply.body[1].ingredients
            spans == TrimmedSpans(Raw)
        IN  /\ Len(ingredients) = Cardinality(spans)
            /\ \A sp \in spans :
                  ingredients[1 + Cardinality({t \in spans : t[1] < sp[1]})]
                      = SubSeq(Raw, sp[1], sp[2])

C6_Witness ==
    /\ Answered
    /\ Raw = <<" ","K","a","l","e", ",", " ", ",", "e","g","g","\t", ",", "a">>
    /\ Succeeded(TheReply)
    /\ TheReply.body[1].ingredients = << <<"K","a","l","e">>, <<"e","g","g">>, <<"a">> >>

\* C9: image_url is the image-search URL followed by the first three
\* ingredients (all of them when there are fewer) joined with "+".
C9_ImageUrlFromFirstThree ==
    (Answered /\ Succeeded(TheReply)) =>
        LET ingredients == TheReply.body[1].ingredients
            plus == <<"+">>
            query == IF Len(ingredients) = 1 THEN ingredients[1]
                     ELSE IF Len(ingredients) = 2
                          THEN ingredients[1] \o plus \o ingredients[2]
                     ELSE ingredients[1] \o plus \o ingredients[2]
                              \o plus \o ingredients[3]
        IN  TheReply.body[1].image_url = IMAGE_PREFIX \o query

C9_Witness ==
    /\ Answered
    /\ Succeeded(TheReply)
    /\ TheReply.body[1].ingredients =
           << <<"a">>, <<"K","a","l","e">>, <<"e","g","g">>, <<"a">> >>
    /\ TheReply.body[1].image_url =
           IMAGE_PREFIX \o <<"a","+","K","a","l","e","+","e","g","g">>

\* C10: a payload posted again gets the reply it got before, whatever was
\* answered in between, and no call changes the lexicon the calls read.
C10_SameInputSameReply ==
    /\ calorie_hints = CALORIE_HINTS
    /\ (Answered /\ memo # <<>> /\ memo[1].raw = Raw) => TheReply = memo[1].reply

C10_Witness ==
    /\ Answered
    /\ memo # <<>>
    /\ memo[1].raw = Raw
    /\ memo[1].later
    /\ Succeeded(TheReply)
    /\ Len(TheReply.body[1].ingredients) = 2

----------------------------------------------------------------------------
(* Properties of the helpers, stated on the argument list and the result   *)

Called(fn) == out # <<>> /\ out[1].fn = fn

Val == out[1].val

CHICKEN_RICE_BOWL == <<"c","h","i","c","k","e","n"," ","r","i","c","e"," ","b","o","w","l">>

EGG_RICE == <<"e","g","g"," ","r","i","c","e">>

KALE == <<" ","K","a","l","e"," ">>

BEEF == <<"B","E","E","F">>

\* key occurs in k at some offset
OccursIn(key, k) ==
    \E off \in 0..(Len(k) - Len(key)) :
        \A j \in 1..Len(key) : k[off + j] = key[j]

\* the contribution the lexicon as declared gives an ingredient, in tenths
DeclaredContribution(x) ==
    LET k == Lower(x)
        matches == { i \in DOMAIN CALORIE_HINTS : OccursIn(CALORIE_HINTS[i][1], k) }
    IN  IF matches = {} THEN <<400, 0, 50, 0>>
        ELSE CALORIE_HINTS[CHOOSE i \in matches : \A j \in matches : i <= j][2]

RECURSIVE SumOver(_, _, _)
SumOver(S, F(_), j) ==
    IF S = {} THEN 0
    ELSE LET i == CHOOSE i \in S : TRUE
         IN  F(i)[j] + SumOver(S \ {i}, F, j)

\* C3: each ingredient is given one contribution: that of the first key, in
\* the declaration order of the lexicon, that occurs in the lowercased
\* ingredient, or 40 kcal, 0 protein, 5 carbs, 0 fat when no key occurs; the
\* calories returned are the sum of these.
C3_FirstDeclaredKeyWins ==
    Called("estimate_nutrition") =>
        /\ \A i \in DOMAIN ings : Contribution(ings[i]) = DeclaredContribution(ings[i])
        /\ Val.calories * 10 =
               SumOver(DOMAIN ings, LAMBDA i : DeclaredContribution(ings[i]), 1)

C3_Witness ==
    /\ Called("estimate_nutrition")
    /\ ings = <<CHICKEN_RICE_BOWL, KALE, EGG_RICE>>
    /\ Contribution(ings[1]) = <<1650, 310, 0, 36>>
    /\ Contribution(ings[2]) = <<400, 0, 50, 0>>
    /\ Contribution(ings[3]) = <<780, 60, 6, 50>>
    /\ Val.calories = 283

\* C4: the facts computed for a list are those of every reordering of it:
\* each is the sum of the contributions of the ingredients, the calories as
\* an integer and the other three to one decimal place.
C4_TotalsAreOrderFreeSums ==
    Called("estimate_nutrition") =>
        LET Part(i) == Contribution(ings[i])
        IN  Val = [calories |-> SumOver(DOMAIN ings, Part, 1) \div 10,
                   protein  |-> SumOver(DOMAIN ings, Part, 2),
                   carbs    |-> SumOver(DOMAIN ings, Part, 3),
                   fat      |-> SumOver(DOMAIN ings, Part, 4)]

C4_Witness ==
    /\ Called("estimate_nutrition")
    /\ out[1].moved
    /\ ings = <<EGG_RICE, CHICKEN_RICE_BOWL>>
    /\ Val = [calories |-> 243, protein |-> 370, carbs |-> 6, fat |-> 86]

\* C5: compute_time is 10 + 5n for n ingredients, held within 15 and 75; it
\* never falls when the list grows, and is 15 for 1 ingredient, 25 for 3 and
\* 75 for 20.
C5_TimeIsClamped ==
    Called("compute_time") =>
        LET n == Len(ings)
            linear == 10 + 5 * n
        IN  /\ Val = (IF linear < 15 THEN 15 ELSE IF linear > 75 THEN 75 ELSE linear)
            /\ Val >= 15 /\ Val <= 75
            /\ \A m \in 0..n : compute_time(Take(ings, m)) <= Val
            /\ n = 1 => Val = 15
            /\ n = 3 => Val = 25
            /\ n = 20 => Val = 75

C5_Witness ==
    /\ Called("compute_time")
    /\ Len(ings) = 20
    /\ Val = 75

\* C7: the title is made of the title-cased non-blank ingredients: the
\* placeholder for none, "Ignited <Ingredient> Delight" for one,
\* "Flame-Kissed <First> & <Second>" for two or more, with " Medley" after
\* it exactly when there are more than two.
C7_TitleFromFirstTwo ==
    Called("craft_title") =>
        LET kept == StripNonEmpty(ings)
            n == Len(kept)
            Named(i) == Title(kept[i])
        IN  /\ n = 0 => Val = TITLE_EMPTY
            /\ n = 1 => Val = <<"I","g","n","i","t","e","d"," ">> \o Named(1) \o <<" ","D","e","l","i","g","h","t">>
            /\ n = 2 => Val = <<"F","l","a","m","e","-","K","i","s","s","e","d"," ">>
                                \o Named(1) \o <<" ","&"," ">> \o Named(2)
            /\ n > 2 => Val = <<"F","l","a","m","e","-","K","i","s","s","e","d"," ">>
                                \o Named(1) \o <<" ","&"," ">> \o Named(2)
                                \o <<" ","M","e","d","l","e","y">>

C7_Witness ==
    /\ Called("craft_title")
    /\ ings = <<CHICKEN_RICE_BOWL, EGG_RICE, BEEF>>
    /\ Val = <<"F","l","a","m","e","-","K","i","s","s","e","d"," ","C","h","i","c","k","e","n"," ","R","i","c","e"," ","B","o","w","l"," ","&"," ","E","g","g"," ","R","i","c","e"," ","M","e","d","l","e","y">>

\* C8: craft_steps returns five steps; the first and the last three are
\* fixed texts, and the second names the first ingredient, trimmed and
\* lowercased, or "ingredients" for an empty list.
C8_FiveStepsLeadInSecond ==
    Called("craft_steps") =>
        LET lead == IF Len(ings) = 0 THEN <<"i","n","g","r","e","d","i","e","n","t","s">>
                    ELSE Lower(Strip(ings[1]))
        IN  /\ Len(Val) = 5
            /\ Val[1] = STEP_1
            /\ Val[2] = <<"A","d","d"," ">> \o lead
                   \o <<" ","w","i","t","h"," ","a"," ","d","r","i","z","z","l","e"," ","o","f"," ","o","i","l",";"," ","s","e","a","r"," ","u","n","t","i","l"," ","l","i","g","h","t","l","y"," ","c","a","r","a","m","e","l","i","z","e","d",".">>
            /\ Val[3] = STEP_3
            /\ Val[4] = STEP_4
            /\ Val[5] = STEP_5

C8_Witness ==
    /\ Called("craft_steps")
    /\ Len(ings) = 3
    /\ ings[1] = BEEF
    /\ Val[2] = <<"A","d","d"," ","b","e","e","f"," ","w","i","t","h"," ","a"," ","d","r","i","z","z","l","e"," ","o","f"," ","o","i","l",";"," ","s","e","a","r"," ","u","n","t","i","l"," ","l","i","g","h","t","l","y"," ","c","a","r","a","m","e","l","i","z","e","d",".">>

====
